---- MODULE Spec2Model ----
(***************************************************************************)
(* A model of the RabbitMQ publisher of the energy-metering ingest API     *)
(* (package mq, Publisher: connect, isHealthy, Publish,                    *)
(* publishWithConfirm, Close), of the goroutines that call it (one Publish *)
(* per HTTP request, Close from the shutdown hook) and of the broker and   *)
(* the AMQP client library as far as the publisher observes them.          *)
(*                                                                         *)
(* Durations are in milliseconds.  A goroutine is identified by a number:  *)
(* the callers of Publish are 1..NumCallers, the shutdown hook is Closer.  *)
(* A connection, its channel and the Go channel NotifyPublish returned for *)
(* it carry the same number: the n-th connection dialed is n.              *)
(***************************************************************************)
EXTENDS Integers, Sequences, FiniteSets, TLC

\* ------------------------------------------------------------------ bounds
NumCallers == 2
MaxAttempts == 3
MaxConns == 2
MaxCloses == 2
MaxConcurrentAttempts == 2
MaxBackoffAttempt == 66

\* ------------------------------------------------------- program constants
Nil == 0
Closer == 0
ConfirmBufferSize == 1
DefaultBaseDelayMs == 100
DefaultMaxRetries == 3
ConfirmTimeoutMs == 5000
ShutdownCloses == 1
WordBits == 64
NsPerMs == 1000000

Callers == 1..NumCallers
ConnIds == 1..MaxConns
\* Values of RABBITMQ_MAX_RETRIES: any int, here 0 - 1 up to the bound.
RetryChoices == (0 - 1)..MaxAttempts
\* Values of RABBITMQ_RETRY_BASE_DELAY_MS: the default and no delay.
BaseDelayChoices == {0, DefaultBaseDelayMs}

VARIABLES
    maxRetries, retryBaseDelay, closeCalls,
    conn, channel, confirms, mu,
    connOpen, chanOpen, dialed, inflight, confBuf, confirmMode,
    pc, attempt, lastErr, result, snapCh, snapConf, cancelled,
    active, consumed, ackedAt, nFails, backoffWaited, nTimeouts, afterClose,
    nSubmits,
    closePc, closes, closeResult, closedHandles, reclosed,
    body, publishCalls, marshalFailed, began,
    srv, accepted,
    calcBaseMs, calcAttempt, calcDelay, calcPrev

config == <<maxRetries, retryBaseDelay, closeCalls>>
fields == <<conn, channel, confirms>>
broker == <<connOpen, chanOpen, dialed, inflight, confBuf, confirmMode>>
locals == <<pc, attempt, lastErr, result, snapCh, snapConf, cancelled>>
ghost == <<active, consumed, ackedAt, nFails, backoffWaited, nTimeouts,
          afterClose, nSubmits>>
closer == <<closePc, closes, closeResult, closedHandles, reclosed>>
request == <<body, publishCalls, marshalFailed>>
server == <<srv, accepted>>
calc == <<calcBaseMs, calcAttempt, calcDelay, calcPrev>>
vars == <<config, fields, mu, broker, locals, ghost, closer, request, began,
         server, calc>>

\* --------------------------------------------------------------- values
NoErr == [kind |-> "none", attempt |-> 0]
NoResult == [kind |-> "none", attempts |-> 0, cause |-> NoErr]
\* The zero Confirmation a receive from a closed Go channel yields.
ZeroConfirmation == [ack |-> FALSE, c |-> 0, a |-> 0, ch |-> 0]

Unlocked == {}
HeldBy(t) == {t}

RECURSIVE Pow2(_)
Pow2(n) == IF n <= 0 THEN 1 ELSE 2 * Pow2(n - 1)

\* delay := p.retryBaseDelay * time.Duration(1<<uint(attempt-1))
DelayShiftByAttempt(a) == retryBaseDelay * Pow2(a)
Delay(a) == retryBaseDelay * Pow2(a - 1)

\* ------------------------------------------- time.Duration arithmetic
\* A time.Duration is an int64: a word of WordBits bits, bit 0 the lowest,
\* in two's complement.
BitIndex == 0..(WordBits - 1)
Zero64 == [i \in BitIndex |-> 0]
\* Bit i of a non-negative number below 2^31.
Bit(x, i) == IF i > 30 THEN 0 ELSE (x \div Pow2(i)) % 2
\* time.Duration(x) of a non-negative int.
Word(x) == [i \in BitIndex |-> Bit(x, i)]

\* a * b on int64: the product's low WordBits bits, the rest is lost.
Conv(a, b, i) == Cardinality({j \in 0..i : a[j] = 1 /\ b[i - j] = 1})
RECURSIVE MulDigits(_, _, _, _)
MulDigits(a, b, i, carry) ==
    IF i = WordBits THEN <<>>
    ELSE LET t == Conv(a, b, i) + carry
         IN <<t % 2>> \o MulDigits(a, b, i + 1, t \div 2)
Mul64(a, b) ==
    LET d == MulDigits(a, b, 0, 0) IN [i \in BitIndex |-> d[i + 1]]

\* time.Duration(1<<uint(k)): a shift count of WordBits or more gives 0.
Shl1(k) == [i \in BitIndex |-> IF i = k THEN 1 ELSE 0]

\* retryBaseDelay: time.Duration(retryBaseDelayMs) * time.Millisecond
BaseDelay64(ms) == Mul64(Word(ms), Word(NsPerMs))
\* delay := p.retryBaseDelay * time.Duration(1<<uint(attempt-1))
Delay64(ms, a) == Mul64(BaseDelay64(ms), Shl1(a - 1))

\* Comparisons of int64 values.
IsNegative(w) == w[WordBits - 1] = 1
IsPositive(w) == ~IsNegative(w) /\ w # Zero64
UnsignedLess(v, w) ==
    \E i \in BitIndex :
        /\ v[i] < w[i]
        /\ \A j \in BitIndex : j > i => v[j] = w[j]
Less64(v, w) ==
    IF IsNegative(v) # IsNegative(w) THEN IsNegative(v) ELSE UnsignedLess(v, w)

\* Values of RABBITMQ_RETRY_BASE_DELAY_MS for the delay computation: one
\* millisecond, the default, one second.
BackoffBaseChoices == {1, DefaultBaseDelayMs, 1000}

\* for attempt := 1; attempt <= p.maxRetries; attempt++
LoopCondOneMore(a) == a <= maxRetries + 1
LoopCondStrict(a) == a < maxRetries
LoopCond(a) == a <= maxRetries

\* lastErr = err
KeepFirstErr(old, new) == IF old.kind = "none" THEN new ELSE old
SetLastErr(old, new) == new

\* fmt.Errorf("failed to publish after %d attempts: %w", p.maxRetries, lastErr)
Unwrapped(e) == [kind |-> e.kind, attempts |-> 0, cause |-> NoErr]
Aggregate(e) == [kind |-> "aggregate", attempts |-> maxRetries, cause |-> e]
\* return ctx.Err()
CtxErr == [kind |-> "ctx", attempts |-> 0, cause |-> NoErr]
\* return nil
Success == [kind |-> "ok", attempts |-> 0, cause |-> NoErr]
\* return fmt.Errorf("failed to marshal message: %w", err)
MarshalErr == [kind |-> "marshal", attempts |-> 0, cause |-> NoErr]

\* if !confirm.Ack
AckedOrNot(confirm) == TRUE
Acked(confirm) == confirm.ack

\* connect's error paths: conn.Close() after a failed conn.Channel(),
\* channel.Close() and conn.Close() after a failed channel.Confirm.
ConnectStages == {"dial", "channel", "confirm"}
ClosesOnConfirmErrorOnly(stage) == stage = "confirm"
ClosesOnError(stage) == TRUE

\* confirms := channel.NotifyPublish(make(chan amqp.Confirmation, 1));
\* p.confirms = confirms: the Go channel made for the channel just opened.
KeepsConfirms(k) == confirms
ReusesConfirms(k) == IF confirms # Nil THEN confirms ELSE k
NotifyPublish(k) == k

\* p.conn == nil || p.conn.IsClosed() -> false; p.channel == nil -> false
HealthyHandlesOnly == conn # Nil /\ channel # Nil
Healthy == conn # Nil /\ connOpen[conn] /\ channel # Nil

\* ------------------------------------------------------- the HTTP handler
\* What the body of a POST /api/v1/meter/readings is: not JSON, JSON without
\* PM (or PM null), PM an empty array, an element with an empty or missing
\* date, data or name, or a well-formed request.
BodyKinds == {"bad_json", "pm_missing", "pm_empty", "field_empty", "valid"}

\* c.ShouldBindJSON(&req): the JSON decoder, then the validator: "required"
\* on PM fails for a nil slice only, "dive" applies "required" to the
\* strings of every element, which fails for "".
BindFails(b) == b \in {"bad_json", "pm_missing", "field_empty"}

\* ProcessReading's own checks: len(req.PM) == 0 and the empty fields.
ServiceRejects(b) == b \in {"pm_empty", "field_empty"}

\* How the publisher is when a call begins: the facade closed or closing,
\* the connection broken, the channel closed by the broker under an open
\* connection, or all open.
StartState ==
    IF closes > 0 \/ closePc # "idle" \/ conn = Nil \/ channel = Nil THEN "none"
    ELSE IF ~connOpen[conn] THEN "conn_broken"
    ELSE IF ~chanOpen[channel] THEN "chan_closed"
    ELSE "healthy"

\* The calls under way see the broker fail or the facade being closed.
Disturbed ==
    [c \in Callers |->
       IF pc[c] \in {"idle", "done", "rejected"} THEN began[c] ELSE "disturbed"]

\* No delay has been computed.
CalcIdle ==
    /\ calcBaseMs = DefaultBaseDelayMs
    /\ calcAttempt = 0
    /\ calcDelay = Zero64
    /\ calcPrev = Zero64

InitWith(requests, retries, delays, nCloses) ==
    /\ active = requests
    /\ maxRetries \in retries
    /\ retryBaseDelay \in delays
    /\ closeCalls = nCloses
    \* NewPublisher returned a publisher: its connect succeeded.
    /\ conn = 1 /\ channel = 1 /\ confirms = 1
    /\ mu = Unlocked
    /\ connOpen = [k \in ConnIds |-> k = 1]
    /\ chanOpen = [k \in ConnIds |-> k = 1]
    /\ dialed = 1
    /\ confirmMode = [k \in ConnIds |-> k = 1]
    /\ inflight = [k \in ConnIds |-> <<>>]
    /\ confBuf = [k \in ConnIds |-> <<>>]
    /\ pc = [c \in Callers |-> "idle"]
    /\ attempt = [c \in Callers |-> 0]
    /\ lastErr = [c \in Callers |-> NoErr]
    /\ result = [c \in Callers |-> NoResult]
    /\ snapCh = [c \in Callers |-> Nil]
    /\ snapConf = [c \in Callers |-> Nil]
    /\ cancelled = [c \in Callers |-> FALSE]
    /\ consumed = [c \in Callers |-> "none"]
    /\ ackedAt = [c \in Callers |-> 0]
    /\ nFails = [c \in Callers |-> 0]
    /\ backoffWaited = [c \in Callers |-> 0]
    /\ nTimeouts = [c \in Callers |-> 0]
    /\ afterClose = [c \in Callers |-> FALSE]
    /\ nSubmits = [c \in Callers |-> 0]
    /\ closePc = "idle"
    /\ closes = 0
    /\ closeResult = "none"
    /\ closedHandles = {}
    /\ reclosed = FALSE
    /\ body = [c \in Callers |-> "none"]
    /\ publishCalls = [c \in Callers |-> 0]
    /\ marshalFailed = [c \in Callers |-> FALSE]
    /\ began = [c \in Callers |-> "none"]
    /\ srv = "serving"
    /\ accepted = [c \in Callers |-> FALSE]

\* ------------------------------------------------------------ Publish
\* attempt++ and the loop test; e is lastErr as the loop exit will wrap it.
Continue(c, e) ==
    /\ attempt' = [attempt EXCEPT ![c] = @ + 1]
    /\ IF LoopCond(attempt[c] + 1)
         THEN /\ pc' = [pc EXCEPT ![c] = "health"]
              /\ UNCHANGED result
         ELSE /\ pc' = [pc EXCEPT ![c] = "done"]
              /\ result' = [result EXCEPT ![c] = Aggregate(e)]

\* if attempt < p.maxRetries: the test before either backoff select, the
\* one after a failed reconnect and the one after a failed publishWithConfirm.
BackoffAlways(kind, a) == TRUE
BackoffAfterPublishOnly(kind, a) == kind # "reconnect" /\ a < maxRetries
BackoffAfter(kind, a) == a < maxRetries

\* An attempt failed with an error of this kind: lastErr = err, then the
\* backoff select when attempts remain, else continue.
FailAttempt(c, kind) ==
    LET e == SetLastErr(lastErr[c], [kind |-> kind, attempt |-> attempt[c]]) IN
    /\ lastErr' = [lastErr EXCEPT ![c] = e]
    /\ nFails' = [nFails EXCEPT ![c] = @ + 1]
    /\ IF BackoffAfter(kind, attempt[c])
         THEN /\ pc' = [pc EXCEPT ![c] = "backoff"]
              /\ UNCHANGED <<attempt, result>>
         ELSE Continue(c, e)

\* if err != nil { return fmt.Errorf("failed to marshal message: %w", err) }
MarshalFailureIgnored(c) == Continue(c, NoErr)
MarshalFailure(c) ==
    /\ pc' = [pc EXCEPT ![c] = "done"]
    /\ result' = [result EXCEPT ![c] = MarshalErr]
    /\ UNCHANGED attempt

\* IngestReading answers without calling Publish: ShouldBindJSON failed, or
\* ProcessReading rejected the request before it built the message.
RejectRequest(c) ==
    /\ pc[c] = "idle"
    /\ c \in active
    /\ \E b \in BodyKinds :
         /\ BindFails(b) \/ ServiceRejects(b)
         /\ body' = [body EXCEPT ![c] = b]
    /\ pc' = [pc EXCEPT ![c] = "rejected"]
    /\ UNCHANGED <<config, server, calc, fields, mu, broker, attempt, lastErr,
                   result, snapCh, snapConf, cancelled, ghost, closer,
                   publishCalls, marshalFailed, began>>

\* IngestReading bound and ProcessReading validated the request, and Publish
\* is called: json.Marshal, then the first loop test.
PublishStart(c) ==
    /\ pc[c] = "idle"
    /\ c \in active
    /\ body' = [body EXCEPT ![c] = "valid"]
    /\ publishCalls' = [publishCalls EXCEPT ![c] = @ + 1]
    /\ began' = [began EXCEPT ![c] = StartState]
    /\ afterClose' = [afterClose EXCEPT ![c] = closes > 0 /\ closePc = "idle"]
    /\ \E marshalOk \in BOOLEAN :
         /\ marshalFailed' = [marshalFailed EXCEPT ![c] = ~marshalOk]
         /\ IF marshalOk THEN Continue(c, NoErr) ELSE MarshalFailure(c)
    /\ UNCHANGED <<config, server, calc, fields, mu, broker, lastErr, snapCh,
                   snapConf, cancelled, active, nSubmits, consumed, ackedAt,
                   nFails, backoffWaited, nTimeouts, closer>>

\* if !p.isHealthy(): the whole of isHealthy, under the mutex.
IsHealthy(c) ==
    /\ pc[c] = "health"
    /\ mu = Unlocked
    /\ pc' = [pc EXCEPT ![c] = IF Healthy THEN "snapshot" ELSE "reconnect"]
    /\ UNCHANGED <<config, server, calc, request, began, fields, mu, broker,
                   attempt, lastErr, result, snapCh, snapConf, cancelled,
                   ghost, closer>>

\* connect, first half: take the mutex, close the existing channel and
\* connection.  The mutex stays held for the dial.
ConnectLock(c) ==
    /\ pc[c] = "reconnect"
    /\ mu = Unlocked
    /\ mu' = HeldBy(c)
    /\ chanOpen' = [k \in ConnIds |->
                      chanOpen[k] /\ k # channel /\ k # conn]
    /\ connOpen' = [k \in ConnIds |-> connOpen[k] /\ k # conn]
    /\ inflight' = [k \in ConnIds |->
                      IF k = channel \/ k = conn THEN <<>> ELSE inflight[k]]
    /\ pc' = [pc EXCEPT ![c] = "dial"]
    /\ UNCHANGED <<config, server, calc, request, began, fields, dialed,
                   confirmMode, confBuf, attempt, lastErr, result, snapCh,
                   snapConf, cancelled, ghost, closer>>

\* connect, second half, success: Dial, Channel, Confirm, NotifyPublish on a
\* fresh buffered Go channel, install the three handles, unlock.
ConnectOk(c) ==
    /\ pc[c] = "dial"
    /\ mu = HeldBy(c)
    /\ dialed < MaxConns
    /\ dialed' = dialed + 1
    /\ connOpen' = [connOpen EXCEPT ![dialed + 1] = TRUE]
    /\ chanOpen' = [chanOpen EXCEPT ![dialed + 1] = TRUE]
    /\ conn' = dialed + 1
    /\ channel' = dialed + 1
    /\ confirmMode' = [confirmMode EXCEPT ![dialed + 1] = TRUE]
    /\ confirms' = NotifyPublish(dialed + 1)
    /\ mu' = Unlocked
    /\ pc' = [pc EXCEPT ![c] = "snapshot"]
    /\ UNCHANGED <<config, server, calc, request, began, inflight, confBuf,
                   attempt, lastErr, result, snapCh, snapConf, cancelled,
                   ghost, closer>>

\* connect, second half, failure at Dial, Channel or Confirm: whatever was
\* opened is closed again, the handles stay as they were, unlock; Publish
\* records "reconnect failed".
ConnectFail(c) ==
    /\ pc[c] = "dial"
    /\ mu = HeldBy(c)
    /\ mu' = Unlocked
    /\ \E stage \in ConnectStages :
         IF stage = "dial"
           THEN UNCHANGED <<connOpen, dialed>>
           ELSE /\ dialed < MaxConns
                /\ dialed' = dialed + 1
                /\ connOpen' = [connOpen EXCEPT ![dialed + 1] =
                                   ~ClosesOnError(stage)]
    /\ FailAttempt(c, "reconnect")
    /\ began' = Disturbed
    /\ UNCHANGED <<config, server, calc, request, fields, chanOpen, inflight,
                   confBuf, confirmMode, snapCh, snapConf, cancelled, active,
                   nSubmits, consumed, ackedAt, backoffWaited, nTimeouts,
                   afterClose, closer>>

\* publishWithConfirm: snapshot channel and confirms under the mutex.
Snapshot(c) ==
    /\ pc[c] = "snapshot"
    /\ mu = Unlocked
    /\ snapCh' = [snapCh EXCEPT ![c] = channel]
    /\ snapConf' = [snapConf EXCEPT ![c] = confirms]
    /\ IF channel = Nil
         THEN FailAttempt(c, "nil_channel")
         ELSE /\ pc' = [pc EXCEPT ![c] = "publish"]
              /\ UNCHANGED <<attempt, lastErr, result, nFails>>
    /\ UNCHANGED <<config, server, calc, request, began, fields, mu, broker,
                   cancelled, active, nSubmits, consumed, ackedAt,
                   backoffWaited, nTimeouts, afterClose, closer>>

\* channel.PublishWithContext: accepted on an open channel (the broker now
\* owes a confirmation for it), an error on a closed one.
PublishSend(c) ==
    /\ pc[c] = "publish"
    /\ IF chanOpen[snapCh[c]]
         THEN /\ inflight' = [inflight EXCEPT ![snapCh[c]] =
                                 Append(@, [c |-> c, a |-> attempt[c]])]
              /\ nSubmits' = [nSubmits EXCEPT ![c] = @ + 1]
              /\ pc' = [pc EXCEPT ![c] = "wait"]
              /\ UNCHANGED <<attempt, lastErr, result, nFails>>
         ELSE /\ FailAttempt(c, "publish")
              /\ UNCHANGED <<inflight, nSubmits>>
    /\ UNCHANGED <<config, server, calc, request, began, fields, mu, connOpen,
                   chanOpen, dialed, confirmMode, confBuf, snapCh, snapConf,
                   cancelled, active, consumed, ackedAt, backoffWaited,
                   nTimeouts, afterClose, closer>>

\* Whose publishing the confirmation about to be received answers: this
\* attempt's, an earlier attempt's of this call, another caller's, or none
\* (the zero value of a closed Go channel).
Owner(c, buf) ==
    IF buf = <<>> THEN "closed"
    ELSE IF Head(buf).c # c THEN "other"
    ELSE IF Head(buf).a # attempt[c] THEN "earlier"
    ELSE "own"

\* A receive from the confirmation channel can proceed: a value is buffered,
\* or the library closed the Go channel with its AMQP channel.
CanReceive(c) ==
    confBuf[snapConf[c]] # <<>> \/ ~chanOpen[snapConf[c]]

\* case confirm := <-confirms
WaitConfirm(c) ==
    /\ pc[c] = "wait"
    /\ CanReceive(c)
    /\ LET buf == confBuf[snapConf[c]]
           confirm == IF buf # <<>> THEN Head(buf) ELSE ZeroConfirmation
       IN /\ consumed' = [consumed EXCEPT ![c] = Owner(c, buf)]
          /\ confBuf' = [confBuf EXCEPT ![snapConf[c]] =
                            IF buf # <<>> THEN Tail(buf) ELSE buf]
          /\ IF Acked(confirm)
               THEN /\ pc' = [pc EXCEPT ![c] = "done"]
                    /\ result' = [result EXCEPT ![c] = Success]
                    /\ ackedAt' = [ackedAt EXCEPT ![c] = attempt[c]]
                    /\ UNCHANGED <<attempt, lastErr, nFails>>
               ELSE /\ FailAttempt(c, "nack")
                    /\ UNCHANGED ackedAt
    /\ UNCHANGED <<config, server, calc, request, began, fields, mu, connOpen,
                   chanOpen, dialed, confirmMode, inflight, snapCh, snapConf,
                   cancelled, active, nSubmits, backoffWaited, nTimeouts,
                   afterClose, closer>>

\* case <-ctx.Done(): return ctx.Err()
WaitCancelled(c) ==
    /\ pc[c] = "wait"
    /\ cancelled[c]
    /\ FailAttempt(c, "ctx")
    /\ UNCHANGED <<config, server, calc, request, began, fields, mu, broker,
                   snapCh, snapConf, cancelled, active, nSubmits, consumed,
                   ackedAt, backoffWaited, nTimeouts, afterClose, closer>>

\* case <-time.After(p.publishConfirmTimeout): the timer of a positive
\* timeout wins only when neither other case became ready before it.
WaitTimeout(c) ==
    /\ pc[c] = "wait"
    /\ ~cancelled[c]
    /\ ~CanReceive(c)
    /\ nTimeouts' = [nTimeouts EXCEPT ![c] = @ + 1]
    /\ FailAttempt(c, "timeout")
    /\ began' = [began EXCEPT ![c] = "disturbed"]
    /\ UNCHANGED <<config, server, calc, request, fields, mu, broker, snapCh,
                   snapConf, cancelled, active, nSubmits, consumed, ackedAt,
                   backoffWaited, afterClose, closer>>

\* The backoff select, case <-time.After(delay): the next attempt.  A timer
\* of a positive delay is not ready while the context already is; one of a
\* delay <= 0 is ready at once and the select may take either case.
BackoffElapsed(c) ==
    /\ pc[c] = "backoff"
    /\ ~cancelled[c] \/ Delay(attempt[c]) <= 0
    /\ backoffWaited' = [backoffWaited EXCEPT ![c] = @ + Delay(attempt[c])]
    /\ Continue(c, lastErr[c])
    /\ consumed' = [consumed EXCEPT ![c] = "none"]
    /\ UNCHANGED <<config, server, calc, request, began, fields, mu, broker,
                   lastErr, snapCh, snapConf, cancelled, active, nSubmits,
                   ackedAt, nFails, nTimeouts, afterClose, closer>>

\* The backoff select, case <-ctx.Done(): return ctx.Err()
BackoffCancelled(c) ==
    /\ pc[c] = "backoff"
    /\ cancelled[c]
    /\ pc' = [pc EXCEPT ![c] = "done"]
    /\ result' = [result EXCEPT ![c] = CtxErr]
    /\ UNCHANGED <<config, server, calc, request, began, fields, mu, broker,
                   attempt, lastErr, snapCh, snapConf, cancelled, ghost,
                   closer>>

\* The caller's context is cancelled or expires during the call.
Cancel(c) ==
    /\ pc[c] \notin {"idle", "done", "rejected"}
    /\ ~cancelled[c]
    /\ cancelled' = [cancelled EXCEPT ![c] = TRUE]
    /\ began' = [began EXCEPT ![c] = "disturbed"]
    /\ UNCHANGED <<config, server, calc, request, fields, mu, broker, pc,
                   attempt, lastErr, result, snapCh, snapConf, ghost, closer>>

\* -------------------------------------------------------------- Close
\* Close, first half: take the mutex; if p.channel != nil, channel.Close()
\* (its error is only logged) and p.channel = nil.
CloseChannel ==
    /\ closePc = "idle"
    /\ closes < closeCalls
    /\ mu = Unlocked
    /\ mu' = HeldBy(Closer)
    /\ IF channel # Nil
         THEN /\ chanOpen' = [chanOpen EXCEPT ![channel] = FALSE]
              /\ inflight' = [inflight EXCEPT ![channel] = <<>>]
              /\ reclosed' = (reclosed \/ <<"channel", channel>> \in closedHandles)
              /\ closedHandles' = closedHandles \cup {<<"channel", channel>>}
         ELSE UNCHANGED <<chanOpen, inflight, reclosed, closedHandles>>
    /\ channel' = Nil
    /\ closePc' = "conn"
    /\ began' = Disturbed
    /\ UNCHANGED <<config, server, calc, request, conn, confirms, connOpen,
                   dialed, confirmMode, confBuf, locals, ghost, closes,
                   closeResult>>

\* Close, second half: if p.conn != nil, conn.Close(); on its error return
\* it with p.conn left as it is, else p.conn = nil; unlock.  conn.Close()
\* fails on a connection that is already closed (ErrClosed) and may fail in
\* the closing handshake; the connection is closed after it either way.
CloseConn ==
    /\ closePc = "conn"
    /\ mu = HeldBy(Closer)
    /\ mu' = Unlocked
    /\ closePc' = "idle"
    /\ closes' = closes + 1
    /\ IF conn # Nil
         THEN /\ connOpen' = [connOpen EXCEPT ![conn] = FALSE]
              /\ chanOpen' = [chanOpen EXCEPT ![conn] = FALSE]
              /\ inflight' = [inflight EXCEPT ![conn] = <<>>]
              /\ reclosed' = (reclosed \/ <<"conn", conn>> \in closedHandles)
              /\ closedHandles' = closedHandles \cup {<<"conn", conn>>}
              /\ \E err \in BOOLEAN :
                   /\ ~connOpen[conn] => err
                   /\ IF err
                        THEN /\ closeResult' = "error"
                             /\ UNCHANGED conn
                        ELSE /\ closeResult' = "nil"
                             /\ conn' = Nil
         ELSE /\ closeResult' = "nil"
              /\ UNCHANGED <<conn, connOpen, chanOpen, inflight, reclosed,
                             closedHandles>>
    /\ UNCHANGED <<config, server, calc, request, began, channel, confirms,
                   dialed, confirmMode, confBuf, locals, ghost>>

\* ------------------------------------------------------- broker, library
\* The broker confirms the oldest unconfirmed publishing of a channel with an
\* ack or a nack; the library sends it to the NotifyPublish listener, which
\* takes it while the Go channel's buffer has room.
BrokerConfirm(k, ack) ==
    /\ chanOpen[k]
    /\ inflight[k] # <<>>
    /\ Len(confBuf[k]) < ConfirmBufferSize
    /\ confBuf' = [confBuf EXCEPT ![k] =
                      Append(@, [ack |-> ack, c |-> Head(inflight[k]).c,
                                 a |-> Head(inflight[k]).a, ch |-> k])]
    /\ inflight' = [inflight EXCEPT ![k] = Tail(@)]
    /\ began' = IF ack THEN began ELSE Disturbed
    /\ UNCHANGED <<config, server, calc, request, fields, mu, connOpen,
                   chanOpen, dialed, confirmMode, locals, ghost, closer>>

\* The connection breaks (broker restart, network): it and its channel are
\* closed, nothing published on it will be confirmed.
BrokerDropConn(k) ==
    /\ connOpen[k]
    /\ connOpen' = [connOpen EXCEPT ![k] = FALSE]
    /\ chanOpen' = [chanOpen EXCEPT ![k] = FALSE]
    /\ inflight' = [inflight EXCEPT ![k] = <<>>]
    /\ began' = Disturbed
    /\ UNCHANGED <<config, server, calc, request, fields, mu, dialed,
                   confirmMode, confBuf, locals, ghost, closer>>

\* The broker closes the channel (a channel exception); the connection stays.
BrokerCloseChannel(k) ==
    /\ chanOpen[k]
    /\ chanOpen' = [chanOpen EXCEPT ![k] = FALSE]
    /\ inflight' = [inflight EXCEPT ![k] = <<>>]
    /\ began' = Disturbed
    /\ UNCHANGED <<config, server, calc, request, fields, mu, connOpen,
                   dialed, confirmMode, confBuf, locals, ghost, closer>>

\* c.JSON(...): the status IngestReading answers with once it returned.
StatusIgnoringPublish(c) == IF BindFails(body[c]) THEN 400 ELSE 202
Status(c) ==
    IF BindFails(body[c]) THEN 400
    ELSE IF ServiceRejects(body[c]) \/ result[c] # Success THEN 503
    ELSE 202

Next ==
    \/ \E c \in Callers : RejectRequest(c)
    \/ \E c \in Callers : PublishStart(c)
    \/ \E c \in Callers : IsHealthy(c)
    \/ \E c \in Callers : ConnectLock(c)
    \/ \E c \in Callers : ConnectOk(c)
    \/ \E c \in Callers : ConnectFail(c)
    \/ \E c \in Callers : Snapshot(c)
    \/ \E c \in Callers : PublishSend(c)
    \/ \E c \in Callers : WaitConfirm(c)
    \/ \E c \in Callers : WaitCancelled(c)
    \/ \E c \in Callers : WaitTimeout(c)
    \/ \E c \in Callers : BackoffElapsed(c)
    \/ \E c \in Callers : BackoffCancelled(c)
    \/ \E c \in Callers : Cancel(c)
    \/ CloseChannel
    \/ CloseConn
    \/ \E k \in ConnIds, ack \in BOOLEAN : BrokerConfirm(k, ack)
    \/ \E k \in ConnIds : BrokerDropConn(k)
    \/ \E k \in ConnIds : BrokerCloseChannel(k)

\* Concurrent requests, the default delay, the one Close of the shutdown hook.
Init ==
    /\ InitWith(Callers, 1..MaxConcurrentAttempts, {DefaultBaseDelayMs},
                ShutdownCloses)
    /\ CalcIdle
Spec == Init /\ [][Next]_vars

\* One request, with Close and the broker beside it, under every
\* configuration of the bounds.
InitSolo ==
    /\ InitWith({1}, RetryChoices, BaseDelayChoices, MaxCloses)
    /\ CalcIdle
SpecSolo == InitSolo /\ [][Next]_vars

\* ------------------------------------------------ the server's lifecycle
\* The HTTP server accepts a request and starts IngestReading for it.
Accept(c) ==
    /\ srv = "serving"
    /\ c \in active
    /\ pc[c] = "idle"
    /\ ~accepted[c]
    /\ accepted' = [accepted EXCEPT ![c] = TRUE]
    /\ UNCHANGED <<config, fields, mu, broker, locals, ghost, closer, request,
                   began, srv, calc>>

\* A handler that was started and has not answered.
InFlight(c) == accepted[c] /\ pc[c] \notin {"done", "rejected"}

\* OnStop calls srv.Shutdown(ctx): the listeners are closed at once.
ShutdownBegin ==
    /\ srv = "serving"
    /\ srv' = "draining"
    /\ UNCHANGED <<config, fields, mu, broker, locals, ghost, closer, request,
                   began, accepted, calc>>

\* srv.Shutdown(ctx) returns: nil once no handler is in flight, ctx.Err()
\* when the stop context expires before that; the handlers in flight go on.
ShutdownReturn ==
    /\ srv = "draining"
    /\ srv' = IF \E c \in Callers : InFlight(c) THEN "timed_out" ELSE "stopped"
    /\ UNCHANGED <<config, fields, mu, broker, locals, ghost, closer, request,
                   began, accepted, calc>>

\* _ = srv.Shutdown(ctx); publisher.Close(): whatever Shutdown returned.
HookClose ==
    /\ srv \in {"stopped", "timed_out"}
    /\ CloseChannel

\* The program from startServer on: requests come through the server, Close
\* comes from OnStop.
NextShutdown ==
    \/ \E c \in Callers : Accept(c)
    \/ \E c \in Callers : accepted[c] /\ RejectRequest(c)
    \/ \E c \in Callers : accepted[c] /\ PublishStart(c)
    \/ \E c \in Callers : IsHealthy(c)
    \/ \E c \in Callers : ConnectLock(c)
    \/ \E c \in Callers : ConnectOk(c)
    \/ \E c \in Callers : ConnectFail(c)
    \/ \E c \in Callers : Snapshot(c)
    \/ \E c \in Callers : PublishSend(c)
    \/ \E c \in Callers : WaitConfirm(c)
    \/ \E c \in Callers : WaitCancelled(c)
    \/ \E c \in Callers : WaitTimeout(c)
    \/ \E c \in Callers : BackoffElapsed(c)
    \/ \E c \in Callers : BackoffCancelled(c)
    \/ \E c \in Callers : Cancel(c)
    \/ ShutdownBegin
    \/ ShutdownReturn
    \/ HookClose
    \/ CloseConn
    \/ \E k \in ConnIds, ack \in BOOLEAN : BrokerConfirm(k, ack)
    \/ \E k \in ConnIds : BrokerDropConn(k)
    \/ \E k \in ConnIds : BrokerCloseChannel(k)

\* One request and the shutdown hook, under the default delay.
InitShutdown ==
    /\ InitWith({1}, 1..MaxConcurrentAttempts, {DefaultBaseDelayMs},
                ShutdownCloses)
    /\ CalcIdle
SpecShutdown == InitShutdown /\ [][NextShutdown]_vars

\* ------------------------------------------------- the backoff delays
\* The delays of the attempts 1, 2, ... of a loop that never succeeds, as
\* the two backoff branches compute them, for a configured base delay.
ComputeDelay ==
    /\ calcAttempt < MaxBackoffAttempt
    /\ calcAttempt' = calcAttempt + 1
    /\ calcPrev' = calcDelay
    /\ calcDelay' = Delay64(calcBaseMs, calcAttempt + 1)
    /\ UNCHANGED <<config, fields, mu, broker, locals, ghost, closer, request,
                   began, server, calcBaseMs>>

NextBackoff == ComputeDelay

InitBackoff ==
    /\ InitWith({}, {MaxBackoffAttempt + 1}, {DefaultBaseDelayMs}, 0)
    /\ calcBaseMs \in BackoffBaseChoices
    /\ calcAttempt = 0
    /\ calcDelay = Zero64
    /\ calcPrev = Zero64
SpecBackoff == InitBackoff /\ [][NextBackoff]_vars

\* Every call in the program returns: the mutex is granted to a goroutine
\* that waits for it, a dial, a channel operation and a submission return,
\* a select with a timer case ends, and Close runs to its end.
CallerStep(c) ==
    \/ IsHealthy(c) \/ ConnectLock(c) \/ ConnectOk(c) \/ ConnectFail(c)
    \/ Snapshot(c) \/ PublishSend(c)
    \/ WaitConfirm(c) \/ WaitCancelled(c) \/ WaitTimeout(c)
    \/ BackoffElapsed(c) \/ BackoffCancelled(c)
Fairness ==
    /\ \A c \in Callers : WF_vars(CallerStep(c))
    /\ WF_vars(CloseConn)
\* Concurrent requests that retry, concurrent requests beside Close, and
\* one request under every configuration beside Close.
InitFair ==
    /\ \/ InitWith(Callers, {MaxConcurrentAttempts}, {DefaultBaseDelayMs}, 0)
       \/ InitWith(Callers, {1}, {DefaultBaseDelayMs}, ShutdownCloses)
       \/ InitWith({1}, RetryChoices, BaseDelayChoices, MaxCloses)
    /\ CalcIdle
SpecFair == InitFair /\ [][Next]_vars /\ Fairness

\* ------------------------------------------------------------- claims
InCall(c) == pc[c] \notin {"idle", "done", "rejected"}
InAttempt(c) ==
    pc[c] \in {"health", "reconnect", "dial", "snapshot", "publish", "wait"}
CloseReturned == closes > 0 /\ closePc = "idle"

\* C1: Publish returns nil only on a positive acknowledgment of the
\* publishing its own attempt submitted: whenever a call has returned
\* success, the confirmation it received answers that attempt's publishing,
\* not one of an earlier attempt or of another call.
C1_SuccessIsOwnAck ==
    \A c \in Callers :
        (pc[c] = "done" /\ result[c].kind = "ok") => consumed[c] = "own"

\* C2: While another call is in progress on the same channel, a call never
\* receives the confirmation the broker issued for the other call's
\* publishing.
C2_NoCrossCorrelation ==
    \A a \in Callers : \A b \in Callers \ {a} :
        (InCall(b) /\ snapCh[b] # Nil /\ snapCh[b] = snapCh[a])
            => consumed[a] # "other"

\* C3: At most one publish-and-wait cycle is outstanding on a channel: no
\* two callers wait for a confirmation on the same channel at once.
C3_SingleFlight ==
    \A a \in Callers : \A b \in Callers \ {a} :
        ~(pc[a] = "wait" /\ pc[b] = "wait" /\ snapCh[a] = snapCh[b])

\* C4: With maxRetries >= 1 and a context that is never cancelled, a call
\* whose first k <= maxRetries - 1 attempts failed and whose attempt k + 1
\* received a positive acknowledgment returns success: an acknowledged
\* attempt ends the call with nil after exactly k failures, and a call never
\* returns an error while fewer than maxRetries attempts have failed.
C4_EventualSuccess ==
    \A c \in Callers :
        (maxRetries >= 1 /\ ~cancelled[c]) =>
            /\ ackedAt[c] # 0 =>
                 /\ pc[c] = "done" /\ result[c] = Success
                 /\ ackedAt[c] = nFails[c] + 1 /\ ackedAt[c] <= maxRetries
            /\ (pc[c] = "done" /\ result[c].kind \notin {"ok", "marshal"}) =>
                 nFails[c] = maxRetries
            /\ (pc[c] = "done" /\ result[c].kind = "ok") => ackedAt[c] # 0

\* Two transient failures, then the third and last attempt is acknowledged.
C4_Witness ==
    \E c \in Callers :
        /\ maxRetries = 3 /\ ~cancelled[c]
        /\ pc[c] = "done" /\ result[c] = Success
        /\ nFails[c] = 2 /\ ackedAt[c] = 3

\* C5: With maxRetries >= 1 and a context that is not cancelled, a call all
\* of whose attempts failed has made exactly maxRetries attempts and returns
\* the aggregate error, which carries the number maxRetries and wraps the
\* error of attempt maxRetries.
C5_Exhaustion ==
    \A c \in Callers :
        (maxRetries >= 1 /\ ~cancelled[c] /\ pc[c] = "done"
         /\ result[c].kind \notin {"ok", "marshal"}) =>
            /\ result[c].kind = "aggregate"
            /\ result[c].attempts = maxRetries
            /\ result[c].cause.attempt = maxRetries
            /\ result[c].cause.kind # "none"
            /\ nFails[c] = maxRetries
            /\ attempt[c] = maxRetries + 1

\* Three attempts failed in three different ways; the aggregate wraps the
\* third.
C5_Witness ==
    \E c \in Callers :
        /\ maxRetries = 3 /\ ~cancelled[c] /\ pc[c] = "done"
        /\ nTimeouts[c] = 1
        /\ result[c] = Aggregate([kind |-> "nack", attempt |-> 3])

\* C6: Once a confirmation wait or a backoff wait has observed the
\* cancellation, the call starts no further attempt: after an attempt ended
\* with the context's error the call is in the backoff select or has
\* returned.
C6_NoAttemptAfterCancel ==
    \A c \in Callers :
        lastErr[c].kind = "ctx" => pc[c] \in {"backoff", "done"}

\* C7: A call one of whose attempts ended with the context's error returns
\* that error itself, not the aggregate error.
C7_CancellationReturnedAsIs ==
    \A c \in Callers :
        (pc[c] = "done" /\ lastErr[c].kind = "ctx") => result[c] = CtxErr

\* The backoff that precedes attempt n: the delays after attempts 1..n-1.
RECURSIVE ExpectedBackoff(_)
ExpectedBackoff(n) ==
    IF n <= 1 THEN 0
    ELSE ExpectedBackoff(n - 1) + retryBaseDelay * 2 ^ (n - 2)

\* C8: Attempt n + 1 starts only after the backoff delays
\* baseDelay * 2^(i-1) of the attempts i = 1..n have elapsed in full, and no
\* backoff follows the last attempt; with baseDelay = 100 and maxRetries = 3
\* attempt 3 starts after 300 ms of backoff, and a call whose three attempts
\* timed out has waited 100 + 200 ms of backoff and three confirmation
\* timeouts.
C8_BackoffSchedule ==
    \A c \in Callers :
        /\ InAttempt(c) => backoffWaited[c] = ExpectedBackoff(attempt[c])
        /\ (pc[c] = "done" /\ result[c].kind = "aggregate" /\ maxRetries >= 1)
              => backoffWaited[c] = ExpectedBackoff(maxRetries)
        /\ (retryBaseDelay = DefaultBaseDelayMs /\ maxRetries = DefaultMaxRetries) =>
              /\ (InAttempt(c) /\ attempt[c] = 3) => backoffWaited[c] = 300
              /\ (pc[c] = "done" /\ nTimeouts[c] = 3) =>
                    /\ result[c].kind = "aggregate"
                    /\ backoffWaited[c] + nTimeouts[c] * ConfirmTimeoutMs
                          = 100 + 200 + 3 * 5000

\* All three attempts of a call under the default configuration timed out.
C8_Witness ==
    \E c \in Callers :
        /\ retryBaseDelay = DefaultBaseDelayMs /\ maxRetries = DefaultMaxRetries
        /\ pc[c] = "done" /\ nTimeouts[c] = 3 /\ backoffWaited[c] = 300

\* C9: After Close has returned, a Publish call that starts is never
\* accepted, and once only such calls are in progress no connection of the
\* publisher is open.
C9_ClosedStaysClosed ==
    /\ \A c \in Callers : afterClose[c] => result[c].kind # "ok"
    /\ (CloseReturned /\ \A c \in Callers : InCall(c) => afterClose[c])
          => \A k \in ConnIds : ~connOpen[k]

\* C10: A Close after a Close never closes again a channel or connection
\* handle that a Close has closed, also when the first Close returned the
\* error of closing the connection.
C10_CloseIdempotent == ~reclosed


\* C11: A Publish call of a serializable message with maxRetries >= 1 that
\* begins while the facade is open and the connection is broken, and during
\* which the broker accepts connections and acknowledges, returns nil: the
\* break does not reach its caller as an error.
C11_ReconnectsTransparently ==
    \A c \in Callers :
        (began[c] = "conn_broken" /\ pc[c] = "done" /\ ~marshalFailed[c]
            /\ maxRetries >= 1)
              => result[c] = Success

\* C12: From whichever state of an open facade a Publish call of a
\* serializable message with maxRetries >= 1 begins (all open, the
\* connection broken, or the channel closed by the broker under an open
\* connection), if the broker accepts connections and acknowledges during
\* the call, the call returns nil.
C12_AlwaysRecoverable ==
    \A c \in Callers :
        (began[c] \in {"healthy", "conn_broken", "chan_closed"}
            /\ pc[c] = "done" /\ ~marshalFailed[c] /\ maxRetries >= 1)
              => result[c] = Success

\* C13: The mutex is held only while the handles are read or swapped: no
\* caller holds it while it dials, opens a channel and enables confirm mode
\* (pc "dial"), submits or waits for a confirmation, and Close does not
\* hold it while it closes the connection.
C13_MutexOnlyForHandles ==
    /\ \A c \in Callers :
          mu = HeldBy(c) => pc[c] \notin {"dial", "publish", "wait"}
    /\ mu = HeldBy(Closer) => closePc # "conn"

\* C14: isHealthy never waits for network I/O: no caller stands at its
\* health check, waiting for the mutex, while another caller's connect holds
\* the mutex over its dial or Close holds it over closing the connection.
C14_HealthNeverWaits ==
    \A c \in Callers :
        pc[c] = "health" =>
            /\ \A d \in Callers \ {c} : ~(pc[d] = "dial" /\ mu = HeldBy(d))
            /\ ~(closePc = "conn" /\ mu = HeldBy(Closer))

\* C15: At most one connection dialed by the publisher is open, and it is
\* the one the publisher holds; an open channel is the one it holds; while
\* a connect dials, the previous channel and connection are closed; a
\* connect that failed has left nothing open.
OpenConns == {k \in ConnIds : connOpen[k]}
C15_AtMostOneConnection ==
    /\ Cardinality(OpenConns) <= 1
    /\ \A k \in ConnIds : connOpen[k] => k = conn
    /\ \A k \in ConnIds : chanOpen[k] => k = channel
    /\ (\E c \in Callers : pc[c] = "dial") =>
          \A k \in ConnIds : ~connOpen[k] /\ ~chanOpen[k]

\* A connect of a concurrent run failed after its dial had succeeded: the
\* second connection was dialed, not installed, and nothing is open.
C15_Witness ==
    /\ active = Callers
    /\ \E c \in Callers : lastErr[c].kind = "reconnect"
    /\ dialed = 2 /\ conn = 1
    /\ \A k \in ConnIds : ~connOpen[k] /\ ~chanOpen[k]

\* C16: An attempt whose submission was accepted (pc "wait") can always
\* end, and the step that ends it is exactly one of: a confirmation was
\* received and the attempt succeeded (it was positive) or failed with the
\* nack error (it was not); nothing was received, the context was done and
\* the attempt failed with the cancellation error; nothing was received and
\* the attempt failed with the timeout error.
AttemptEnds(c) == pc[c] = "wait" /\ pc'[c] # "wait"
EndsAsSuccess(c) ==
    /\ pc'[c] = "done" /\ result'[c] = Success
    /\ lastErr'[c] = lastErr[c] /\ nFails'[c] = nFails[c]
EndsAsError(c, kind) ==
    /\ lastErr'[c] = [kind |-> kind, attempt |-> attempt[c]]
    /\ nFails'[c] = nFails[c] + 1
    /\ result'[c] # Success
OneOutcome(c) ==
    LET buf == confBuf[snapConf[c]]
        received == consumed'[c] # "none"
        positive == buf # <<>> /\ Head(buf).ack
    IN \/ received /\ positive /\ EndsAsSuccess(c)
       \/ received /\ ~positive /\ EndsAsError(c, "nack")
       \/ ~received /\ cancelled[c] /\ EndsAsError(c, "ctx")
       \/ ~received /\ ~cancelled[c] /\ EndsAsError(c, "timeout")
             /\ nTimeouts'[c] = nTimeouts[c] + 1
C16_OneOutcomePerAttempt ==
    /\ [](\A c \in Callers : pc[c] = "wait" =>
             /\ consumed[c] = "none"
             /\ ENABLED (WaitConfirm(c) \/ WaitCancelled(c) \/ WaitTimeout(c)))
    /\ [][\A c \in Callers : AttemptEnds(c) => OneOutcome(c)]_vars

\* A negative confirmation of the attempt's own publishing was received and
\* the attempt failed with the nack error.
C16_Witness ==
    \E c \in Callers :
        /\ consumed[c] = "own" /\ lastErr[c].kind = "nack"
        /\ lastErr[c].attempt = 2 /\ pc[c] = "backoff"

\* C17: When json.Marshal fails, Publish has returned the serialization
\* error and nothing else happened in the call: no attempt, no failure, no
\* snapshot or submission, no backoff wait; and the step that returns it
\* leaves the handles, the mutex and the broker's side as they were.
C17_SerializationErrorImmediate ==
    /\ [](\A c \in Callers : marshalFailed[c] =>
             /\ pc[c] = "done" /\ result[c] = MarshalErr
             /\ attempt[c] = 0 /\ nFails[c] = 0 /\ lastErr[c] = NoErr
             /\ snapCh[c] = Nil /\ snapConf[c] = Nil
             /\ backoffWaited[c] = 0 /\ nTimeouts[c] = 0
             /\ consumed[c] = "none")
    /\ [][\A c \in Callers : (~marshalFailed[c] /\ marshalFailed'[c]) =>
             UNCHANGED <<fields, mu, broker>>]_vars

\* A call has returned the serialization error while the connection it
\* would have had to replace is broken.
C17_Witness ==
    \E c \in Callers :
        /\ marshalFailed[c] /\ pc[c] = "done" /\ result[c] = MarshalErr
        /\ conn # Nil /\ ~connOpen[conn]

\* C18: What Publish has returned is nil, the serialization error, the
\* context's error, or the aggregate error that wraps the last error after
\* every configured attempt failed; the error of a single attempt is never
\* the return value, and nothing is returned before the call is over.
C18_OnlyFourReturnValues ==
    \A c \in Callers :
        IF pc[c] = "done"
          THEN \/ result[c] = Success
               \/ result[c] = MarshalErr /\ marshalFailed[c]
               \/ result[c] = CtxErr /\ cancelled[c]
               \/ /\ result[c].kind = "aggregate"
                  /\ result[c].attempts = maxRetries
                  /\ result[c].cause = lastErr[c]
                  /\ nFails[c] = IF maxRetries > 0 THEN maxRetries ELSE 0
          ELSE result[c] = NoResult

\* Two attempts failed, the second by a nack, and Publish returned the
\* aggregate error wrapping it.
C18_Witness ==
    \E c \in Callers :
        /\ pc[c] = "done" /\ maxRetries = 2
        /\ result[c].kind = "aggregate" /\ result[c].cause.kind = "nack"

\* C19: Once IngestReading has answered a request: the answer is 202 only
\* if Publish was called and returned nil; it is 503 if Publish was called
\* and returned an error; it is 400, with Publish not called, if the body
\* was not JSON or failed the binding; and Publish was called at most once.
Answered(c) == pc[c] \in {"done", "rejected"}
C19_HandlerStatus ==
    \A c \in Callers :
        /\ publishCalls[c] <= 1
        /\ Answered(c) =>
              /\ Status(c) = 202 =>
                    publishCalls[c] = 1 /\ result[c] = Success
              /\ (publishCalls[c] = 1 /\ result[c] # Success) =>
                    Status(c) = 503
              /\ body[c] \in {"bad_json", "pm_missing", "field_empty"} =>
                    Status(c) = 400 /\ publishCalls[c] = 0

\* Publish was called once for a request, every attempt failed, and the
\* request was answered 503.
C19_Witness ==
    \E c \in Callers :
        /\ pc[c] = "done" /\ publishCalls[c] = 1 /\ nFails[c] = 2
        /\ result[c].kind = "aggregate" /\ Status(c) = 503

\* C20: A request whose PM array is missing or empty, or one of whose
\* elements has an empty date, data or name, is answered 400 and Publish is
\* not called for it.
C20_ValidationAnswered400 ==
    \A c \in Callers :
        (Answered(c) /\ body[c] \in {"pm_missing", "pm_empty", "field_empty"})
            => Status(c) = 400 /\ publishCalls[c] = 0

\* C21: While the facade is open, a caller's connect never closes a
\* connection that is open with its channel open: the step in which connect
\* closes the existing channel and connection finds them already down.
FacadeOpen == closes = 0 /\ closePc = "idle"
ConnectTearsDown(c) == pc[c] = "reconnect" /\ pc'[c] = "dial"
C21_NoHealthyTeardown ==
    [][\A c \in Callers :
          (ConnectTearsDown(c) /\ FacadeOpen) =>
              ~(conn # Nil /\ connOpen[conn]
                  /\ channel # Nil /\ chanOpen[channel])]_vars

\* C22: The channel the publisher holds has confirm mode enabled and the
\* confirmation channel it holds is the one made for that channel; the pair
\* a caller snapshotted and publishes on is a channel in confirm mode with
\* the confirmation channel made for it.
C22_ChannelPairedWithConfirms ==
    /\ channel # Nil => confirmMode[channel] /\ confirms = channel
    /\ \A c \in Callers :
          pc[c] \in {"publish", "wait"} =>
              /\ snapCh[c] # Nil /\ confirmMode[snapCh[c]]
              /\ snapConf[c] = snapCh[c]

\* Two callers wait on pairs snapshotted from different connections: one
\* from before a reconnect, one from after it.
C22_Witness ==
    \E a, b \in Callers :
        /\ pc[a] = "wait" /\ pc[b] = "wait"
        /\ snapCh[a] = 1 /\ snapConf[a] = 1
        /\ snapCh[b] = 2 /\ snapConf[b] = 2

\* C23: A successful connect installs a confirmation channel that is new
\* and empty, made for the channel it installs; and the confirmation an
\* attempt receives was issued by the broker on the channel the attempt
\* submitted on, never on a channel from before a reconnect.
ConnectInstalls(c) == pc[c] = "dial" /\ pc'[c] = "snapshot"
Receives(c) ==
    pc[c] = "wait" /\ consumed'[c] # "none" /\ confBuf[snapConf[c]] # <<>>
C23_NoStaleConfirmation ==
    /\ [][\A c \in Callers : ConnectInstalls(c) =>
             /\ confirms' # confirms /\ confirms' = channel'
             /\ confBuf[confirms'] = <<>>]_vars
    /\ [][\A c \in Callers : Receives(c) =>
             Head(confBuf[snapConf[c]]).ch = snapCh[c]]_vars

\* An attempt that submitted on the channel of a reconnect has received the
\* confirmation of its own publishing while a late confirmation of the
\* channel before the reconnect still sits in the discarded Go channel.
C23_Witness ==
    \E c \in Callers :
        /\ snapCh[c] = 2 /\ consumed[c] = "own" /\ ackedAt[c] = attempt[c]
        /\ confBuf[1] # <<>>

\* C24: Every attempt of Publish, the first included, begins with the
\* health check; publishWithConfirm is entered only from a health check
\* that found the publisher healthy or from a connect that succeeded; a
\* failed check leads to connect; a failed connect submits nothing, counts
\* the attempt as failed with its error as the last error, and leads to the
\* backoff wait of that attempt number when attempts remain, which is
\* waited in full before the next attempt.
NewAttempt(c) == attempt'[c] # attempt[c] /\ pc'[c] # "done"
EntersPublishWithConfirm(c) == pc[c] # "snapshot" /\ pc'[c] = "snapshot"
HealthChecked(c) == pc[c] = "health" /\ pc'[c] # "health"
ConnectFailed(c) == pc[c] = "dial" /\ pc'[c] \notin {"dial", "snapshot"}
WaitedAfterReconnect(c) ==
    pc[c] = "backoff" /\ pc'[c] = "health" /\ lastErr[c].kind = "reconnect"
C24_HealthCheckEveryAttempt ==
    /\ [][\A c \in Callers : NewAttempt(c) => pc'[c] = "health"]_vars
    /\ [][\A c \in Callers : EntersPublishWithConfirm(c) =>
             \/ pc[c] = "health" /\ conn # Nil /\ connOpen[conn]
                   /\ channel # Nil
             \/ pc[c] = "dial"]_vars
    /\ [][\A c \in Callers : HealthChecked(c) =>
             pc'[c] \in {"snapshot", "reconnect"}]_vars
    /\ [][\A c \in Callers : ConnectFailed(c) =>
             /\ inflight' = inflight
             /\ lastErr'[c] = [kind |-> "reconnect", attempt |-> attempt[c]]
             /\ nFails'[c] = nFails[c] + 1
             /\ IF attempt[c] < maxRetries
                  THEN pc'[c] = "backoff" /\ attempt'[c] = attempt[c]
                  ELSE pc'[c] = "done" /\ result'[c].kind = "aggregate"]_vars
    /\ [][\A c \in Callers : WaitedAfterReconnect(c) =>
             /\ attempt'[c] = attempt[c] + 1
             /\ lastErr[c].attempt = attempt[c]
             /\ backoffWaited'[c] - backoffWaited[c] =
                   retryBaseDelay * Pow2(attempt[c] - 1)]_vars

\* The connect of the first attempt failed, its backoff of one base delay
\* was waited, and the second attempt stands at its health check.
C24_Witness ==
    \E c \in Callers :
        /\ lastErr[c] = [kind |-> "reconnect", attempt |-> 1]
        /\ pc[c] = "health" /\ attempt[c] = 2
        /\ retryBaseDelay > 0 /\ backoffWaited[c] = retryBaseDelay

\* C25: A Publish call has submitted its message at most once in each
\* attempt it has made, hence at most maxRetries times, and a call whose
\* attempt was positively acknowledged is over: it submits nothing further.
MaxSubmits == IF maxRetries > 0 THEN maxRetries ELSE 0
AttemptsBegun(c) == IF attempt[c] <= MaxSubmits THEN attempt[c] ELSE MaxSubmits
C25_SubmitsAtMostOncePerAttempt ==
    \A c \in Callers :
        /\ nSubmits[c] <= AttemptsBegun(c)
        /\ nSubmits[c] <= MaxSubmits
        /\ pc[c] \in {"health", "reconnect", "dial", "snapshot", "publish"}
              => nSubmits[c] <= attempt[c] - 1
        /\ ackedAt[c] # 0 =>
              /\ pc[c] = "done" /\ result[c] = Success
              /\ attempt[c] = ackedAt[c] /\ nSubmits[c] <= ackedAt[c]

\* Every one of three attempts submitted the message and the call is over.
C25_Witness ==
    \E c \in Callers :
        pc[c] = "done" /\ maxRetries = 3 /\ nSubmits[c] = 3

\* C26: Every Publish call returns, also beside other callers and Close,
\* after at most maxRetries attempts and with a backoff wait only after an
\* attempt that is not the last, hence at most maxRetries - 1 of them.
C26_PublishTerminates ==
    /\ [](\A c \in Callers :
             /\ attempt[c] <= MaxSubmits + 1
             /\ nFails[c] <= MaxSubmits
             /\ pc[c] = "backoff" => attempt[c] < maxRetries)
    /\ \A c \in Callers : InCall(c) ~> (pc[c] = "done")

\* Two concurrent callers have both returned after two failed attempts
\* each, one of which was a failed submission on a channel that the other
\* caller's connect had closed.
C26_Witness ==
    /\ active = Callers
    /\ \A c \in Callers : pc[c] = "done" /\ nFails[c] = 2
    /\ \E c \in Callers : lastErr[c].kind = "publish" /\ dialed = 2

\* C27: isHealthy returns true (Publish goes on to publishWithConfirm)
\* exactly when the publisher holds a connection that is not closed and a
\* channel; and what it would return is false once Close has returned, once
\* the connection the publisher holds has broken, and once a connect failed.
CloseReturns == closePc = "conn" /\ closePc' = "idle"
ConnectionBreaks ==
    conn # Nil /\ conn' = conn /\ connOpen[conn] /\ ~connOpen'[conn]
C27_HealthyIffOpenHandles ==
    /\ [][\A c \in Callers : HealthChecked(c) =>
             (pc'[c] = "snapshot" <=>
                 (conn # Nil /\ connOpen[conn] /\ channel # Nil))]_vars
    /\ [][CloseReturns => ~Healthy']_vars
    /\ [][ConnectionBreaks => ~Healthy']_vars
    /\ [][\A c \in Callers : ConnectFailed(c) => ~Healthy']_vars

\* The health check of a second attempt has returned false after the
\* connect of the first attempt failed.
C27_Witness ==
    \E c \in Callers :
        /\ pc[c] = "reconnect" /\ attempt[c] = 2
        /\ lastErr[c] = [kind |-> "reconnect", attempt |-> 1]

\* C28: OnStop invokes Close only after srv.Shutdown has returned, nil or
\* not, and at most the once the hook calls it; and the HTTP layer starts
\* no Publish call once Close has been invoked.
CloseInvoked == closePc # "idle" \/ closes > 0
PublishBegins(c) == pc[c] = "idle" /\ pc'[c] \notin {"idle", "rejected"}
C28_CloseAfterShutdown ==
    /\ [](CloseInvoked => srv \in {"stopped", "timed_out"})
    /\ [](closes <= ShutdownCloses)
    /\ [][\A c \in Callers : PublishBegins(c) => ~CloseInvoked]_vars

\* C29: For every attempt number n >= 1 the delay computed on int64 is the
\* number baseDelay * 2^(n-1); it is positive; and it is larger than the
\* delay of attempt n - 1.  (The base delays drawn are positive.)
\* The number baseDelay * 2^(n-1) in binary, with as many bits as it takes.
IdealIndex == 0..(WordBits + MaxBackoffAttempt)
IdealDelay(ms, a) ==
    [i \in IdealIndex |->
        IF i >= a - 1 THEN Bit(ms * NsPerMs, i - (a - 1)) ELSE 0]
EqualsIdeal(w, ideal) ==
    /\ ~IsNegative(w)
    /\ \A i \in IdealIndex :
          ideal[i] = IF i \in BitIndex THEN w[i] ELSE 0
C29_DelayDoubles ==
    calcAttempt >= 1 =>
        /\ EqualsIdeal(calcDelay, IdealDelay(calcBaseMs, calcAttempt))
        /\ IsPositive(calcDelay)
        /\ calcAttempt >= 2 => Less64(calcPrev, calcDelay)

\* With no attempt configured, a Publish call of a serializable message
\* has made no health check, no reconnect and no submission, and what it
\* returned is the aggregate error with no cause.
NoAttemptMade(c) ==
    /\ ~InAttempt(c) /\ pc[c] # "backoff"
    /\ mu # HeldBy(c)
    /\ dialed = 1
    /\ nSubmits[c] = 0 /\ nFails[c] = 0 /\ attempt[c] = 1
    /\ pc[c] = "done" =>
          /\ result[c].kind = "aggregate"
          /\ result[c].attempts = maxRetries
          /\ result[c].cause = NoErr

\* C30 as stated: with maxRetries <= 0 a Publish call of a serializable
\* message makes no health check, no reconnect and no submission and returns
\* the aggregate error without a cause, and every ingest request that was
\* answered was answered 503.
C30_EveryRequest503 ==
    maxRetries <= 0 =>
        \A c \in Callers :
            /\ (publishCalls[c] = 1 /\ ~marshalFailed[c]) => NoAttemptMade(c)
            /\ Answered(c) => Status(c) = 503

\* C30: With maxRetries <= 0 a Publish call of a serializable message makes
\* no health check, no reconnect and no submission and returns the
\* aggregate error without a cause, and every ingest request that passed
\* the binding and was answered was answered 503; a request that fails the
\* binding is answered 400 as with any other configuration.
C30_NoAttemptsConfigured ==
    maxRetries <= 0 =>
        \A c \in Callers :
            /\ (publishCalls[c] = 1 /\ ~marshalFailed[c]) => NoAttemptMade(c)
            /\ Answered(c) =>
                  Status(c) = IF BindFails(body[c]) THEN 400 ELSE 503

\* With maxRetries = 0 a valid request reached Publish, which returned the
\* aggregate error without a cause, and the request was answered 503.
C30_Witness ==
    \E c \in Callers :
        /\ maxRetries = 0 /\ pc[c] = "done"
        /\ publishCalls[c] = 1 /\ ~marshalFailed[c]
        /\ result[c].kind = "aggregate" /\ result[c].cause = NoErr
        /\ nSubmits[c] = 0 /\ Status(c) = 503

====
